---- MODULE Spec2Model ----
(***************************************************************************)
(* Sequence packing of pretraining-llms/Lesson_3.ipynb: the cells that     *)
(* concatenate dataset["input_ids"], truncate the token buffer to a        *)
(* multiple of max_seq_length, reshape it into rows of max_seq_length      *)
(* int32 values and save the rows as the packed dataset.                   *)
(*                                                                         *)
(* A token id is an int64 array element, written [hi, lo] for the integer  *)
(* hi * 2^31 + lo with 0 <= lo < 2^31, so that the int64 -> int32          *)
(* conversion of astype(np.int32) is computed within 32-bit arithmetic.    *)
(* Elements of the reshaped rows are plain integers (int32).               *)
(*                                                                         *)
(* Around the packing: the session cells (run-mode flags, setup_environment*)
(* and the unmount cell), tokenization upstream of the packer, and the     *)
(* helper functions find_max, h6_open_llm_leaderboard and get_completion   *)
(* of the neighbouring notebooks, each under a specification of its own.   *)
(***************************************************************************)
EXTENDS Integers, Sequences, FiniteSets, TLC

VARIABLES
    dataset,                    \* the column dataset["input_ids"]: a sequence of token sequences
    L,                          \* the row width written in the cell (the literal of line 535)
    max_seq_length,             \* the notebook variable max_seq_length
    input_ids,                  \* the notebook variable input_ids (the token buffer)
    total_length,               \* the notebook variable total_length
    input_ids_reshaped,         \* the notebook variable input_ids_reshaped (the rows)
    packaged_pretrain_dataset,  \* the records of the saved packed dataset
    pc,                         \* the statement the notebook is at
    error,                      \* the exception that stopped the notebook, or "none"
    run,                        \* how many times the packing cells have been started
    prev,                       \* what the previous run of the packing cells was given and left
    notebook,                   \* which notebook's setup_environment and cells the session runs
    in_colab,                   \* the session runs where google.colab can be imported
    gpu_ok,                     \* nvidia-smi succeeds on the machine
    cwd_base,                   \* os.path.basename(os.getcwd()) when the session starts
    drive_mounted,              \* os.path.ismount('/content/drive')
    curr_proj_folder,           \* the notebook variable / argument curr_proj_folder
    use_gpu,                    \* the notebook variable use_gpu
    run_remote,                 \* the notebook variable run_remote
    run_local,                  \* the notebook variable run_local
    run_local_usingColab,       \* the notebook variable run_local_usingColab
    mount_success,              \* the notebook variable mount_success
    path_to_scripts,            \* the notebook variable path_to_scripts (script_path)
    setup_use_gpu,              \* use_gpu inside setup_environment when it returned
    unmounted,                  \* drive.flush_and_unmount() has been called
    setup_arg_use_gpu,          \* the use_gpu argument setup_environment was called with
    torch_checked,              \* the torch version cell has run
    cuda_reported,              \* the torch version cell took its `if use_gpu:` branch
    session_pc,                 \* the cell the session is at
    session_error,              \* the exception that stopped the session, or "none"
    numbers,                    \* find_max: the argument numbers
    find_max_result,            \* find_max: the value returned
    find_max_returned,          \* find_max: the call has returned
    model_name,                 \* h6_open_llm_leaderboard: the argument model_name
    task_at,                    \* h6_open_llm_leaderboard: how many tasks the for loop has taken
    eval_cmds,                  \* the commands given to os.system, in order
    exit_codes,                 \* what os.system returned for each command
    today,                      \* the date datetime.datetime.now().date() gives
    current_date,               \* the notebook variable current_date
    llm_model,                  \* the notebook variable llm_model
    default_model,              \* the default of get_completion's parameter model
    used_model,                 \* the model of the last get_completion(prompt) call
    texts,                      \* the column dataset["text"]
    num_tokens,                 \* the column dataset["num_tokens"]
    total_tokens                \* the notebook variable total_tokens

packVars == <<dataset, L, max_seq_length, input_ids, total_length,
              input_ids_reshaped, packaged_pretrain_dataset, pc, error>>

rerunVars == <<run, prev>>

envVars == <<notebook, in_colab, gpu_ok, cwd_base, drive_mounted, curr_proj_folder,
             use_gpu, run_remote, run_local, run_local_usingColab, mount_success,
             path_to_scripts, setup_use_gpu, unmounted, setup_arg_use_gpu,
             torch_checked, cuda_reported, session_pc, session_error>>

findVars == <<numbers, find_max_result, find_max_returned>>

evalVars == <<model_name, task_at, eval_cmds, exit_codes>>

modelVars == <<today, current_date, llm_model, default_model, used_model>>

tokVars == <<texts, num_tokens, total_tokens>>

sideVars == <<findVars, evalVars, modelVars, tokVars>>

vars == <<packVars, rerunVars, envVars, sideVars>>

----------------------------------------------------------------------------
(* Bounds of the model *)

MaxRecords == 2

MaxRecordLen == 2

MaxTokenId == 2

MaxL == 5

MaxNegL == 2

MaxRuns == 2

MaxHi == 2

WideLen == 2

MaxNumber == 2

MaxNumbers == 3

DateSpan == 1

MaxTexts == 2

MaxTextLen == 2

Int32Max == 2147483647

----------------------------------------------------------------------------
(* Inputs *)

Tok(h, l) == [hi |-> h, lo |-> l]

\* token ids as the tokenizer's vocabulary gives them: small non-negative integers
TokenIds == {Tok(0, l) : l \in 1..MaxTokenId}

SeqsUpTo(S, n) == UNION {[1..k -> S] : k \in 0..n}

Records == SeqsUpTo(TokenIds, MaxRecordLen)

Datasets == SeqsUpTo(Records, MaxRecords)

LValues == (0 - MaxNegL)..MaxL

----------------------------------------------------------------------------
(* Library operations, as the packing cells use them *)

\* a concatenation that puts each array before the ones already joined
RECURSIVE np_concatenate_reversed(_)
np_concatenate_reversed(arrays) ==
    IF arrays = <<>> THEN <<>>
    ELSE np_concatenate_reversed(Tail(arrays)) \o Head(arrays)

\* a concatenation onto the buffer the notebook already holds
RECURSIVE np_concatenate_appending(_)
np_concatenate_appending(arrays) ==
    IF arrays = <<>> THEN input_ids
    ELSE np_concatenate_appending(SubSeq(arrays, 1, Len(arrays) - 1)) \o arrays[Len(arrays)]

\* the tokens the previous run cut off the end of its buffer
RECURSIVE Joined(_)
Joined(arrays) == IF arrays = <<>> THEN <<>> ELSE Head(arrays) \o Joined(Tail(arrays))

Leftover ==
    IF prev.L > 0 /\ prev.pc \in {"reshape", "save", "done"}
    THEN LET t == Joined(prev.dataset)
         IN  SubSeq(t, Len(t) - (Len(t) % prev.L) + 1, Len(t))
    ELSE <<>>

\* a concatenation that puts the previous run's cut-off tokens first
np_concatenate_carry(arrays) == Leftover \o Joined(arrays)

\* np.concatenate(arrays) along axis 0: the arrays one after another
RECURSIVE np_concatenate(_)
np_concatenate(arrays) ==
    IF arrays = <<>> THEN <<>>
    ELSE Head(arrays) \o np_concatenate(Tail(arrays))

\* np.concatenate raises ValueError("need at least one array to concatenate")
np_concatenate_raises(arrays) == arrays = <<>>

\* the remainder of C's truncating division: the result has the sign of the dividend
PyMod_truncated(a, b) ==
    IF b > 0 THEN a % b
    ELSE IF b < 0 THEN a % (0 - b)
    ELSE 0

\* Python's a % b for integers: the result has the sign of the divisor
PyMod(a, b) ==
    IF b > 0 THEN a % b
    ELSE IF b < 0 THEN 0 - ((0 - a) % (0 - b))
    ELSE 0

\* a % 0 raises ZeroDivisionError
PyModRaises(b) == b = 0

\* a total length that is the number of rows: the multiplication forgotten
TotalLength_rows(n, msl) == IF msl > 0 THEN n \div msl ELSE n

\* a total length rounded down from len - 1: an exact multiple loses its last row
TotalLength_strict(n, msl) == IF n > 0 THEN (n - 1) - PyMod(n - 1, msl) ELSE 0

\* total_length = len(input_ids) - len(input_ids) % max_seq_length
TotalLength(n, msl) == n - PyMod(n, msl)

\* a[-stop:], for 0 < stop <= len(a): the last stop elements instead of the first
SliceFromEnd(a, stop) ==
    LET s0 == IF stop < 0 THEN 0 ELSE IF stop > Len(a) THEN Len(a) ELSE stop
    IN  SubSeq(a, Len(a) - s0 + 1, Len(a))

\* a[:stop] of a one-dimensional array: a negative stop counts from the end,
\* and the stop is clipped to the array
SliceTo(a, stop) ==
    LET s0 == IF stop < 0 THEN stop + Len(a) ELSE stop
        s1 == IF s0 < 0 THEN 0 ELSE IF s0 > Len(a) THEN Len(a) ELSE s0
    IN  SubSeq(a, 1, s1)

\* a reshape that only checks divisibility when the width is positive
ReshapeRaises_lenient(size, width) == width > 0 /\ size % width # 0

\* a reshape that cannot infer the unknown dimension of an empty array
ReshapeRaises_empty(size, width) ==
    \/ width <= 0
    \/ size % width # 0
    \/ size = 0

\* a.reshape(-1, width) raises ValueError: a second negative dimension, or a
\* size that the known dimension does not divide
ReshapeRaises(size, width) ==
    \/ width < 0
    \/ width = 0
    \/ size % width # 0

\* a.reshape(width, -1): the two dimensions swapped
np_reshape_swapped(a, width) ==
    IF width > 0
    THEN [i \in 1..width |->
            [j \in 1..(Len(a) \div width) |-> a[(i - 1) * (Len(a) \div width) + j]]]
    ELSE <<>>

\* a.reshape(-1, width, order='F'): column-major, row i holds a[i], a[i + rows], ...
np_reshape_fortran(a, width) ==
    IF width > 0
    THEN [i \in 1..(Len(a) \div width) |->
            [j \in 1..width |-> a[(j - 1) * (Len(a) \div width) + i]]]
    ELSE <<>>

\* a.reshape(-1, width), C order: row i holds a[i*width .. (i+1)*width - 1]
np_reshape(a, width) ==
    IF width > 0
    THEN [i \in 1..(Len(a) \div width) |->
            [j \in 1..width |-> a[(i - 1) * width + j]]]
    ELSE <<>>

\* a conversion that clips to the largest int32 instead of wrapping
astype_saturating(t) == IF t.hi = 0 THEN t.lo ELSE Int32Max

\* the int64 -> int32 conversion of astype(np.int32): the value modulo 2^32,
\* read as a signed 32-bit integer
astype_int32(t) ==
    IF t.hi % 2 = 0 THEN t.lo ELSE (t.lo - Int32Max) - 1

astype_rows(rows) ==
    [i \in DOMAIN rows |-> [j \in DOMAIN rows[i] |-> astype_int32(rows[i][j])]]

\* input_ids_reshaped.tolist() and Dataset.from_dict({"input_ids": ...}):
\* one record per row, with the single field input_ids
from_dict(rows) == [i \in DOMAIN rows |-> [input_ids |-> rows[i]]]

----------------------------------------------------------------------------
(* The notebook *)

StepOrder == <<"concatenate", "total_length", "truncate", "reshape", "save", "done">>

Position(p) == CHOOSE i \in DOMAIN StepOrder : StepOrder[i] = p

\* the statements that have been performed: those before pc
Performed == {StepOrder[i] : i \in 1..(Position(pc) - 1)}

\* the packing cells have not run: their variables are unset
PackerUnset ==
    /\ max_seq_length = 0
    /\ input_ids = <<>>
    /\ total_length = 0
    /\ input_ids_reshaped = <<>>
    /\ packaged_pretrain_dataset = <<>>
    /\ pc = "concatenate"
    /\ error = "none"

\* no earlier run of the packing cells
NoRun == [dataset |-> <<>>, L |-> 0, rows |-> <<>>, packaged |-> <<>>,
          pc |-> "concatenate", error |-> "none"]

FirstRun ==
    /\ run = 1
    /\ prev = NoRun

\* the session as Lesson_3.ipynb is committed, its setup cells done and the
\* unmount cell not reached (run_remote = False, lines 153-165)
SessionAtPacking ==
    /\ notebook = "Lesson_3"
    /\ in_colab = TRUE
    /\ gpu_ok = TRUE
    /\ cwd_base = "pretraining-llms"
    /\ drive_mounted = FALSE
    /\ curr_proj_folder = "pretraining-llms"
    /\ use_gpu = TRUE
    /\ run_remote = FALSE
    /\ run_local = FALSE
    /\ run_local_usingColab = TRUE
    /\ mount_success = FALSE
    /\ path_to_scripts = "cwd"
    /\ setup_use_gpu = TRUE
    /\ unmounted = FALSE
    /\ setup_arg_use_gpu = TRUE
    /\ torch_checked = FALSE
    /\ cuda_reported = FALSE
    /\ session_pc = "unmount"
    /\ session_error = "none"

\* find_max has not been called
FindIdle ==
    /\ numbers = <<>>
    /\ find_max_result = 0
    /\ find_max_returned = FALSE

\* h6_open_llm_leaderboard has not been called
EvalIdle ==
    /\ model_name = "unset"
    /\ task_at = 0
    /\ eval_cmds = <<>>
    /\ exit_codes = <<>>

\* datetime.date(2024, 6, 12)
target_date == [year |-> 2024, month |-> 6, day |-> 12]

\* the cell defining get_completion has not been executed
ModelIdle ==
    /\ today = target_date
    /\ current_date = target_date
    /\ llm_model = "unset"
    /\ default_model = "unset"
    /\ used_model = "unset"

\* the dataset's text column is not looked at
TokIdle ==
    /\ texts = <<>>
    /\ num_tokens = <<>>
    /\ total_tokens = 0

SideIdle ==
    /\ FindIdle
    /\ EvalIdle
    /\ ModelIdle
    /\ TokIdle

Init ==
    /\ dataset \in Datasets
    /\ L \in LValues
    /\ PackerUnset
    /\ FirstRun
    /\ SessionAtPacking
    /\ SideIdle

\* a concatenation cell that keeps a buffer it already holds
Concatenate_cached ==
    /\ pc = "concatenate"
    /\ error = "none"
    /\ IF np_concatenate_raises(dataset)
       THEN /\ error' = "ValueError"
            /\ UNCHANGED <<input_ids, max_seq_length, pc>>
       ELSE /\ input_ids' = IF input_ids = <<>> THEN np_concatenate(dataset) ELSE input_ids
            /\ max_seq_length' = L
            /\ pc' = "total_length"
            /\ UNCHANGED error
    /\ UNCHANGED <<dataset, L, total_length, input_ids_reshaped, packaged_pretrain_dataset>>
    /\ UNCHANGED <<rerunVars, envVars, sideVars>>

\* input_ids = np.concatenate(dataset["input_ids"]); max_seq_length = <L>
Concatenate ==
    /\ pc = "concatenate"
    /\ error = "none"
    /\ IF np_concatenate_raises(dataset)
       THEN /\ error' = "ValueError"
            /\ UNCHANGED <<input_ids, max_seq_length, pc>>
       ELSE /\ input_ids' = np_concatenate(dataset)
            /\ max_seq_length' = L
            /\ pc' = "total_length"
            /\ UNCHANGED error
    /\ UNCHANGED <<dataset, L, total_length, input_ids_reshaped, packaged_pretrain_dataset>>
    /\ UNCHANGED <<rerunVars, envVars, sideVars>>

\* total_length = len(input_ids) - len(input_ids) % max_seq_length
ComputeTotalLength ==
    /\ pc = "total_length"
    /\ error = "none"
    /\ IF PyModRaises(max_seq_length)
       THEN /\ error' = "ZeroDivisionError"
            /\ UNCHANGED <<total_length, pc>>
       ELSE /\ total_length' = TotalLength(Len(input_ids), max_seq_length)
            /\ pc' = "truncate"
            /\ UNCHANGED error
    /\ UNCHANGED <<dataset, L, max_seq_length, input_ids, input_ids_reshaped,
                   packaged_pretrain_dataset>>
    /\ UNCHANGED <<rerunVars, envVars, sideVars>>

\* input_ids = input_ids[:total_length]
Truncate ==
    /\ pc = "truncate"
    /\ error = "none"
    /\ input_ids' = SliceTo(input_ids, total_length)
    /\ pc' = "reshape"
    /\ UNCHANGED <<dataset, L, max_seq_length, total_length, input_ids_reshaped,
                   packaged_pretrain_dataset, error>>
    /\ UNCHANGED <<rerunVars, envVars, sideVars>>

\* input_ids_reshaped = input_ids.reshape(-1, max_seq_length).astype(np.int32)
Reshape ==
    /\ pc = "reshape"
    /\ error = "none"
    /\ IF ReshapeRaises(Len(input_ids), max_seq_length)
       THEN /\ error' = "ValueError"
            /\ UNCHANGED <<input_ids_reshaped, pc>>
       ELSE /\ input_ids_reshaped' = astype_rows(np_reshape(input_ids, max_seq_length))
            /\ pc' = "save"
            /\ UNCHANGED error
    /\ UNCHANGED <<dataset, L, max_seq_length, input_ids, total_length,
                   packaged_pretrain_dataset>>
    /\ UNCHANGED <<rerunVars, envVars, sideVars>>

\* packaged_pretrain_dataset = Dataset.from_dict({"input_ids": input_ids_reshaped.tolist()})
\* and its to_json
Save ==
    /\ pc = "save"
    /\ error = "none"
    /\ packaged_pretrain_dataset' = from_dict(input_ids_reshaped)
    /\ pc' = "done"
    /\ UNCHANGED <<dataset, L, max_seq_length, input_ids, total_length,
                   input_ids_reshaped, error>>
    /\ UNCHANGED <<rerunVars, envVars, sideVars>>

Next ==
    \/ Concatenate
    \/ ComputeTotalLength
    \/ Truncate
    \/ Reshape
    \/ Save

Spec == Init /\ [][Next]_vars

----------------------------------------------------------------------------
(* The packing cells on one stream of ten distinct token ids, cut into      *)
(* records in every possible way                                            *)

Ids(ints) == [k \in DOMAIN ints |-> Tok(0, ints[k])]

ScenarioInput == << Ids(<<1, 2, 3>>), Ids(<<4, 5>>), Ids(<<6, 7, 8, 9, 10>>) >>

\* the stream t cut after each position of cuts
RECURSIVE SplitAt(_, _)
SplitAt(t, cuts) ==
    IF cuts = {} THEN <<t>>
    ELSE LET c == CHOOSE x \in cuts : \A y \in cuts : y <= x
         IN  SplitAt(SubSeq(t, 1, c), cuts \ {c}) \o <<SubSeq(t, c + 1, Len(t))>>

\* the datasets whose records, one after another, are the stream t
Resplits(t) == {SplitAt(t, cuts) : cuts \in SUBSET (1..(Len(t) - 1))}

InitScenario ==
    /\ dataset \in Resplits(np_concatenate(ScenarioInput))
    /\ L \in LValues
    /\ PackerUnset
    /\ FirstRun
    /\ SessionAtPacking
    /\ SideIdle

SpecScenario == InitScenario /\ [][Next]_vars

----------------------------------------------------------------------------
(* The concatenation and packing cells run again in the same kernel: the    *)
(* notebook's variables keep what the previous run left in them             *)

RerunStream == Ids(<<1, 2, 3, 4, 5>>)

\* another shard of data: none of its token ids is in the shard before
NextShard(ds) ==
    [r \in DOMAIN ds |-> [k \in DOMAIN ds[r] |-> Tok(ds[r][k].hi, ds[r][k].lo + 10)]]

Snapshot == [dataset |-> dataset, L |-> L, rows |-> input_ids_reshaped,
             packaged |-> packaged_pretrain_dataset, pc |-> pc, error |-> error]

InitRerun ==
    /\ dataset \in Resplits(RerunStream)
    /\ L \in LValues
    /\ PackerUnset
    /\ FirstRun
    /\ SessionAtPacking
    /\ SideIdle

\* the cells are run again from the concatenation cell, on the same data or on
\* another shard and with the same or another max_seq_length written in the cell
Restart ==
    /\ pc = "done" \/ error # "none"
    /\ run < MaxRuns
    /\ \E ds \in {dataset, NextShard(dataset)}, w \in LValues :
          /\ dataset' = ds
          /\ L' = w
    /\ pc' = "concatenate"
    /\ error' = "none"
    /\ run' = run + 1
    /\ prev' = Snapshot
    /\ UNCHANGED <<max_seq_length, input_ids, total_length, input_ids_reshaped,
                   packaged_pretrain_dataset>>
    /\ UNCHANGED <<envVars, sideVars>>

NextRerun ==
    \/ Concatenate
    \/ ComputeTotalLength
    \/ Truncate
    \/ Reshape
    \/ Save
    \/ Restart

SpecRerun == InitRerun /\ [][NextRerun]_vars

----------------------------------------------------------------------------
(* The packing cells on token ids of any size an int64 array holds: ids at  *)
(* and beyond 2^31 are among them                                           *)

WideTokenIds == {Tok(h, l) : h \in 0..MaxHi, l \in {0, 1, Int32Max}}

InitWide ==
    /\ dataset \in UNION {Resplits(t) : t \in [1..WideLen -> WideTokenIds]}
    /\ L \in LValues
    /\ PackerUnset
    /\ FirstRun
    /\ SessionAtPacking
    /\ SideIdle

SpecWide == InitWide /\ [][Next]_vars

----------------------------------------------------------------------------
(* The session around the packing: the run-mode flags, setup_environment    *)
(* and the cell that unmounts Google Drive.  Two notebooks differ: L1 finds *)
(* out by importing google.colab whether it runs locally, the others        *)
(* (Lesson_3 stands for them) are told by run_remote.                       *)

NoneValue == "<None>"

Folders == {"pretraining-llms", "pretrain-llms", "", NoneValue}

\* bool(x) of a folder argument: None and the empty string are false
Truthy(folder) == folder \notin {NoneValue, ""}

\* flags that are both the negation's operand: run_local_usingColab = run_local
RunModeFlags_same(rr) ==
    IF rr
    THEN [run_local |-> FALSE, run_local_usingColab |-> FALSE]
    ELSE [run_local |-> FALSE, run_local_usingColab |-> FALSE]

\* if run_remote: run_local = False; run_local_usingColab = False
\* else:          run_local = False; run_local_usingColab = not run_local
RunModeFlags(rr) ==
    IF rr
    THEN [run_local |-> FALSE, run_local_usingColab |-> FALSE]
    ELSE LET rl == FALSE
         IN  [run_local |-> rl, run_local_usingColab |-> ~rl]

\* setup_environment takes its remote branch
TakesRemoteBranch(nb, colab, rr) == IF nb = "L1" THEN colab ELSE rr

\* a mount check made outside the remote branch
MountSuccess_anywhere(remote, ismount) == ismount

\* mount_success = False; in the remote branch: True if os.path.ismount('/content/drive')
MountSuccess(remote, ismount) == remote /\ ismount

\* assert statements compiled away
AssertFails_stripped(nb, base, folder) == FALSE

\* the local branch's assert os.path.basename(path_to_scripts) == curr_proj_folder
\* fails; L1 makes the check only if curr_proj_folder is true
AssertFails(nb, base, folder) ==
    IF nb = "L1" THEN Truthy(folder) /\ base # folder
    ELSE base # folder

\* use_gpu inside setup_environment after the nvidia-smi check; L1 checks only
\* in its local branch
GpuAfterCheck(nb, remote, use, ok) ==
    IF nb = "L1" /\ remote THEN use
    ELSE use /\ ok

\* the unmount cell's condition: L1: not run_local and mount_success; others: run_remote
Unmounts(nb, rr, rl, ms) == IF nb = "L1" THEN ~rl /\ ms ELSE rr

PackerIdle ==
    /\ dataset = <<>>
    /\ L = 0
    /\ PackerUnset
    /\ FirstRun

InitEnv ==
    /\ notebook \in {"L1", "Lesson_3"}
    /\ in_colab \in BOOLEAN
    /\ gpu_ok \in BOOLEAN
    /\ cwd_base \in {"pretraining-llms", "other"}
    /\ drive_mounted \in BOOLEAN
    /\ curr_proj_folder \in Folders
    /\ use_gpu \in BOOLEAN
    /\ run_remote \in (IF notebook = "L1" THEN {FALSE} ELSE BOOLEAN)
    /\ run_local = FALSE
    /\ run_local_usingColab = FALSE
    /\ mount_success = FALSE
    /\ path_to_scripts = "unset"
    /\ setup_use_gpu = use_gpu
    /\ unmounted = FALSE
    /\ setup_arg_use_gpu = FALSE
    /\ torch_checked = FALSE
    /\ cuda_reported = FALSE
    /\ session_pc = (IF notebook = "L1" THEN "setup" ELSE "run_mode")
    /\ session_error = "none"
    /\ PackerIdle
    /\ SideIdle

\* the run-mode statements of the configuration cell
RunModeCell ==
    /\ session_pc = "run_mode"
    /\ session_error = "none"
    /\ run_local' = RunModeFlags(run_remote).run_local
    /\ run_local_usingColab' = RunModeFlags(run_remote).run_local_usingColab
    /\ session_pc' = "setup"
    /\ UNCHANGED <<notebook, in_colab, gpu_ok, cwd_base, drive_mounted, curr_proj_folder,
                   use_gpu, run_remote, mount_success, path_to_scripts, setup_use_gpu,
                   unmounted, setup_arg_use_gpu, torch_checked, cuda_reported,
                   session_error>>
    /\ UNCHANGED <<packVars, rerunVars, sideVars>>

\* the call of setup_environment and the assignment of what it returns
SetupEnvironment ==
    /\ session_pc = "setup"
    /\ session_error = "none"
    /\ LET remote == TakesRemoteBranch(notebook, in_colab, run_remote)
       IN  IF remote
           THEN IF ~in_colab
                THEN \* from google.colab import drive
                     /\ session_error' = "ImportError"
                     /\ UNCHANGED <<drive_mounted, run_local, mount_success,
                                    path_to_scripts, setup_use_gpu, session_pc>>
                ELSE \* drive.mount('/content/drive')
                     \E m \in (IF drive_mounted THEN {TRUE} ELSE BOOLEAN) :
                        /\ drive_mounted' = m
                        /\ IF notebook # "L1" /\ curr_proj_folder = NoneValue
                           THEN \* os.path.join(mount_path, google_drive_base_folder, None)
                                /\ session_error' = "TypeError"
                                /\ UNCHANGED <<run_local, mount_success, path_to_scripts,
                                               setup_use_gpu, session_pc>>
                           ELSE /\ mount_success' = MountSuccess(remote, m)
                                /\ path_to_scripts' = "drive"
                                /\ setup_use_gpu' = GpuAfterCheck(notebook, remote, use_gpu, gpu_ok)
                                /\ run_local' = (IF notebook = "L1" THEN FALSE ELSE run_local)
                                /\ session_pc' = "unmount"
                                /\ UNCHANGED session_error
           ELSE IF AssertFails(notebook, cwd_base, curr_proj_folder)
                THEN /\ session_error' = "AssertionError"
                     /\ UNCHANGED <<drive_mounted, run_local, mount_success,
                                    path_to_scripts, setup_use_gpu, session_pc>>
                ELSE /\ mount_success' = MountSuccess(remote, drive_mounted)
                     /\ path_to_scripts' = "cwd"
                     /\ setup_use_gpu' = GpuAfterCheck(notebook, remote, use_gpu, gpu_ok)
                     /\ run_local' = (IF notebook = "L1" THEN TRUE ELSE run_local)
                     /\ session_pc' = "unmount"
                     /\ UNCHANGED <<drive_mounted, session_error>>
    /\ setup_arg_use_gpu' = use_gpu
    /\ UNCHANGED <<notebook, in_colab, gpu_ok, cwd_base, curr_proj_folder, use_gpu,
                   run_remote, run_local_usingColab, unmounted, torch_checked,
                   cuda_reported>>
    /\ UNCHANGED <<packVars, rerunVars, sideVars>>

\* the last cell: drive.flush_and_unmount() under the notebook's condition
UnmountCell ==
    /\ session_pc = "unmount"
    /\ session_error = "none"
    /\ IF Unmounts(notebook, run_remote, run_local, mount_success)
       THEN /\ unmounted' = TRUE
            /\ drive_mounted' = FALSE
       ELSE UNCHANGED <<unmounted, drive_mounted>>
    /\ session_pc' = "end"
    /\ UNCHANGED <<notebook, in_colab, gpu_ok, cwd_base, curr_proj_folder, use_gpu,
                   run_remote, run_local, run_local_usingColab, mount_success,
                   path_to_scripts, setup_use_gpu, setup_arg_use_gpu, torch_checked,
                   cuda_reported, session_error>>
    /\ UNCHANGED <<packVars, rerunVars, sideVars>>

\* the cell that prints the torch versions, run once at any time between
\* setup_environment and the unmount cell: if use_gpu: print the CUDA versions
TorchCheckCell ==
    /\ notebook # "L1"
    /\ session_pc = "unmount"
    /\ session_error = "none"
    /\ ~torch_checked
    /\ torch_checked' = TRUE
    /\ cuda_reported' = use_gpu
    /\ UNCHANGED <<notebook, in_colab, gpu_ok, cwd_base, drive_mounted, curr_proj_folder,
                   use_gpu, run_remote, run_local, run_local_usingColab, mount_success,
                   path_to_scripts, setup_use_gpu, unmounted, setup_arg_use_gpu,
                   session_pc, session_error>>
    /\ UNCHANGED <<packVars, rerunVars, sideVars>>

NextEnv ==
    \/ RunModeCell
    \/ SetupEnvironment
    \/ TorchCheckCell
    \/ UnmountCell

SpecEnv == InitEnv /\ [][NextEnv]_vars

----------------------------------------------------------------------------
(* find_max of the code-completion notebook *)

NumberValues == (0 - MaxNumber)..MaxNumber

NumberLists == UNION {[1..n -> NumberValues] : n \in 0..MaxNumbers}

\* for num in numbers: if num > max: max = num, from element i on with max = m
RECURSIVE find_max_loop(_, _, _)
find_max_loop(nums, i, m) ==
    IF i > Len(nums) THEN m
    ELSE find_max_loop(nums, i + 1, IF nums[i] > m THEN nums[i] ELSE m)

\* max = 0; the loop; return max
find_max(nums) == find_max_loop(nums, 1, 0)

InitFindMax ==
    /\ numbers \in NumberLists
    /\ find_max_result = 0
    /\ find_max_returned = FALSE
    /\ PackerIdle
    /\ SessionAtPacking
    /\ EvalIdle
    /\ ModelIdle
    /\ TokIdle

\* the call find_max(numbers)
FindMax ==
    /\ ~find_max_returned
    /\ find_max_result' = find_max(numbers)
    /\ find_max_returned' = TRUE
    /\ UNCHANGED numbers
    /\ UNCHANGED <<packVars, rerunVars, envVars, evalVars, modelVars, tokVars>>

NextFindMax == FindMax

SpecFindMax == InitFindMax /\ [][NextFindMax]_vars

----------------------------------------------------------------------------
(* h6_open_llm_leaderboard of the evaluation notebook *)

\* the tasks in alphabetical order
task_and_shot_sorted ==
    << [task |-> "arc_challenge", fewshot |-> 25],
       [task |-> "gsm8k", fewshot |-> 5],
       [task |-> "hellaswag", fewshot |-> 10],
       [task |-> "mmlu", fewshot |-> 5],
       [task |-> "truthfulqa_mc2", fewshot |-> 0],
       [task |-> "winogrande", fewshot |-> 5] >>

task_and_shot ==
    << [task |-> "arc_challenge", fewshot |-> 25],
       [task |-> "hellaswag", fewshot |-> 10],
       [task |-> "mmlu", fewshot |-> 5],
       [task |-> "truthfulqa_mc2", fewshot |-> 0],
       [task |-> "winogrande", fewshot |-> 5],
       [task |-> "gsm8k", fewshot |-> 5] >>

\* the f-string eval_cmd: lm_eval --model hf --model_args pretrained={model_name}
\* --tasks {task} --device cpu --num_fewshot {fewshot}
eval_cmd(name, task, fewshot) ==
    [program |-> "lm_eval", model |-> "hf", pretrained |-> name, tasks |-> task,
     device |-> "cpu", num_fewshot |-> fewshot]

ModelNames == {"YOUR_MODEL", "./models/other"}

\* what os.system returns: the command's exit status, zero or not
ExitCodes == {0, 1}

InitEval ==
    /\ model_name \in ModelNames
    /\ task_at = 0
    /\ eval_cmds = <<>>
    /\ exit_codes = <<>>
    /\ PackerIdle
    /\ SessionAtPacking
    /\ FindIdle
    /\ ModelIdle
    /\ TokIdle

\* one turn of the for loop: build eval_cmd and give it to os.system, whose
\* result is dropped
RunEvalCommand ==
    /\ task_at < Len(task_and_shot)
    /\ LET t == task_and_shot[task_at + 1]
       IN  eval_cmds' = Append(eval_cmds, eval_cmd(model_name, t.task, t.fewshot))
    /\ \E code \in ExitCodes : exit_codes' = Append(exit_codes, code)
    /\ task_at' = task_at + 1
    /\ UNCHANGED model_name
    /\ UNCHANGED <<packVars, rerunVars, envVars, findVars, modelVars, tokVars>>

NextEval == RunEvalCommand

SpecEval == InitEval /\ [][NextEval]_vars

----------------------------------------------------------------------------
(* The cell of L1-Model_prompt_parser.ipynb that chooses llm_model by the   *)
(* date and defines get_completion(prompt, model=llm_model)                 *)

\* dates around the target date
Dates ==
    [year : (target_date.year - DateSpan)..(target_date.year + DateSpan),
     month : (target_date.month - DateSpan)..(target_date.month + DateSpan),
     day : (target_date.day - DateSpan)..(target_date.day + DateSpan)]

\* a comparison that also holds on the day itself
DateAfter_inclusive(a, b) ==
    \/ a.year > b.year
    \/ a.year = b.year /\ a.month > b.month
    \/ a.year = b.year /\ a.month = b.month /\ a.day >= b.day

\* a > b of datetime.date: by year, then month, then day
DateAfter(a, b) ==
    \/ a.year > b.year
    \/ a.year = b.year /\ a.month > b.month
    \/ a.year = b.year /\ a.month = b.month /\ a.day > b.day

\* if current_date > target_date: "gpt-3.5-turbo" else "gpt-3.5-turbo-0301"
SelectModel(date) ==
    IF DateAfter(date, target_date) THEN "gpt-3.5-turbo" ELSE "gpt-3.5-turbo-0301"

InitModel ==
    /\ today \in Dates
    /\ current_date = today
    /\ llm_model = "unset"
    /\ default_model = "unset"
    /\ used_model = "unset"
    /\ PackerIdle
    /\ SessionAtPacking
    /\ FindIdle
    /\ EvalIdle
    /\ TokIdle

\* the cell is executed: current_date and llm_model are assigned and the def
\* statement binds the default of model to the value llm_model has now
DefineCell ==
    /\ current_date' = today
    /\ llm_model' = SelectModel(today)
    /\ default_model' = SelectModel(today)
    /\ UNCHANGED <<today, used_model>>
    /\ UNCHANGED <<packVars, rerunVars, envVars, findVars, evalVars, tokVars>>

\* the kernel stays up while the date moves on
DayPasses ==
    /\ \E d \in Dates : DateAfter(d, today) /\ today' = d
    /\ UNCHANGED <<current_date, llm_model, default_model, used_model>>
    /\ UNCHANGED <<packVars, rerunVars, envVars, findVars, evalVars, tokVars>>

\* get_completion(prompt) with model left to its default
GetCompletion ==
    /\ default_model # "unset"
    /\ used_model' = default_model
    /\ UNCHANGED <<today, current_date, llm_model, default_model>>
    /\ UNCHANGED <<packVars, rerunVars, envVars, findVars, evalVars, tokVars>>

NextModel ==
    \/ DefineCell
    \/ DayPasses
    \/ GetCompletion

SpecModel == InitModel /\ [][NextModel]_vars

----------------------------------------------------------------------------
(* Tokenization of Lesson_3.ipynb, upstream of the packing cells.  A text   *)
(* is a sequence of words; the tokenizer cuts a word into one or two pieces *)
(* and gives every piece its id in the vocabulary.                          *)

Words == {"a", "sentence"}

Texts == UNION {[1..n -> Words] : n \in 0..MaxTextLen}

TextColumns == UNION {[1..n -> Texts] : n \in 1..MaxTexts}

\* the pieces the tokenizer cuts a word into
Pieces(word) == IF word = "sentence" THEN <<"_sent", "ence">> ELSE <<"_" \o word>>

\* tokenizer.tokenize(text)
RECURSIVE tokenize(_)
tokenize(text) ==
    IF text = <<>> THEN <<>> ELSE Pieces(Head(text)) \o tokenize(Tail(text))

\* the id of a piece in the vocabulary
VocabId(piece) ==
    CASE piece = "_a" -> Tok(0, 3)
      [] piece = "_sent" -> Tok(0, 4)
      [] piece = "ence" -> Tok(0, 5)
      [] OTHER -> Tok(0, 0)

\* tokenizer.convert_tokens_to_ids(tokens)
convert_tokens_to_ids(tokens) == [i \in DOMAIN tokens |-> VocabId(tokens[i])]

bos_token_id == Tok(0, 1)

eos_token_id == Tok(0, 2)

\* a tokenization that adds no special tokens
tokenization_bare(text) ==
    LET token_ids == convert_tokens_to_ids(tokenize(text))
    IN  [input_ids |-> token_ids, num_tokens |-> Len(token_ids)]

\* tokenization(example): the input_ids and num_tokens it stores for example["text"]
tokenization(text) ==
    LET tokens == tokenize(text)
        token_ids == <<bos_token_id>> \o convert_tokens_to_ids(tokens) \o <<eos_token_id>>
    IN  [input_ids |-> token_ids, num_tokens |-> Len(token_ids)]

\* np.sum of a column of integers
RECURSIVE np_sum(_)
np_sum(column) == IF column = <<>> THEN 0 ELSE Head(column) + np_sum(Tail(column))

InitTokenize ==
    /\ texts \in TextColumns
    /\ num_tokens = <<>>
    /\ total_tokens = 0
    /\ dataset = <<>>
    /\ L \in {3, 5}
    /\ max_seq_length = 0
    /\ input_ids = <<>>
    /\ total_length = 0
    /\ input_ids_reshaped = <<>>
    /\ packaged_pretrain_dataset = <<>>
    /\ pc = "tokenize"
    /\ error = "none"
    /\ FirstRun
    /\ SessionAtPacking
    /\ FindIdle
    /\ EvalIdle
    /\ ModelIdle

\* dataset = dataset.map(tokenization, load_from_cache_file=True)
Tokenize ==
    /\ pc = "tokenize"
    /\ error = "none"
    /\ dataset' = [r \in DOMAIN texts |-> tokenization(texts[r]).input_ids]
    /\ num_tokens' = [r \in DOMAIN texts |-> tokenization(texts[r]).num_tokens]
    /\ pc' = "total_tokens"
    /\ UNCHANGED <<texts, total_tokens>>
    /\ UNCHANGED <<L, max_seq_length, input_ids, total_length, input_ids_reshaped,
                   packaged_pretrain_dataset, error>>
    /\ UNCHANGED <<rerunVars, envVars, findVars, evalVars, modelVars>>

\* total_tokens = np.sum(dataset["num_tokens"])
TotalTokens ==
    /\ pc = "total_tokens"
    /\ error = "none"
    /\ total_tokens' = np_sum(num_tokens)
    /\ pc' = "concatenate"
    /\ UNCHANGED <<texts, num_tokens>>
    /\ UNCHANGED <<dataset, L, max_seq_length, input_ids, total_length, input_ids_reshaped,
                   packaged_pretrain_dataset, error>>
    /\ UNCHANGED <<rerunVars, envVars, findVars, evalVars, modelVars>>

NextTokenize ==
    \/ Tokenize
    \/ TotalTokens
    \/ Concatenate
    \/ ComputeTotalLength
    \/ Truncate
    \/ Reshape
    \/ Save

SpecTokenize == InitTokenize /\ [][NextTokenize]_vars

----------------------------------------------------------------------------
(* What the claims speak of, stated apart from the operations above *)

RECURSIVE SumLens(_)
SumLens(seqs) == IF seqs = <<>> THEN 0 ELSE Len(Head(seqs)) + SumLens(Tail(seqs))

\* N: the total number of tokens of the input
N == SumLens(dataset)

\* the number of tokens in the records before record r
Offset(r) == SumLens(SubSeq(dataset, 1, r - 1))

\* T: the tokens of the input in record order, position by position
FlatT ==
    [p \in 1..N |->
        LET r == CHOOSE q \in 1..Len(dataset) :
                     Offset(q) < p /\ p <= Offset(q) + Len(dataset[q])
        IN  dataset[r][p - Offset(r)]]

\* the integer v is the token id t
IsInt(t, v) == t.hi = 0 /\ t.lo = v

Rows == input_ids_reshaped

Packed == pc \in {"save", "done"}

\* the notebook has stopped: no statement is left to run
Stopped == ~ENABLED Next

----------------------------------------------------------------------------
(* C1: for every input and every positive L, every row the packer produces, *)
(* and every record of the saved packed dataset, holds exactly L integers,  *)
(* the record having input_ids as its only field.                           *)
C1_RowsHaveWidthL ==
    L > 0 =>
        /\ \A i \in DOMAIN Rows :
              /\ Len(Rows[i]) = L
              /\ \A j \in DOMAIN Rows[i] : Rows[i][j] \in Int
        /\ \A i \in DOMAIN packaged_pretrain_dataset :
              /\ DOMAIN packaged_pretrain_dataset[i] = {"input_ids"}
              /\ Len(packaged_pretrain_dataset[i].input_ids) = L
              /\ \A j \in 1..L : packaged_pretrain_dataset[i].input_ids[j] \in Int

C1_Witness ==
    /\ pc = "done"
    /\ L >= 2
    /\ Len(packaged_pretrain_dataset) >= 2

(* C2: for every input and every positive L, the rows hold floor(N / L) * L *)
(* elements in all, N being the sum of the lengths of the input sequences   *)
(* (no row at all when the run stopped before the reshape).                 *)
C2_TotalElements ==
    (L > 0 /\ (Packed \/ Stopped)) =>
        /\ SumLens(Rows) = (N \div L) * L
        /\ pc = "done" =>
              SumLens([i \in DOMAIN packaged_pretrain_dataset |->
                          packaged_pretrain_dataset[i].input_ids]) = (N \div L) * L

C2_Witness ==
    /\ pc = "save"
    /\ L > 1
    /\ N % L # 0
    /\ SumLens(Rows) = N - 1

(* C3: for every input and positive L, row i (0-based) is the elements at   *)
(* positions [i*L, (i+1)*L) of the truncated buffer, the rows cover it      *)
(* exactly, and the truncated buffer is the first floor(N/L)*L elements of  *)
(* the concatenation T.                                                     *)
C3_RowsAreConsecutiveChunks ==
    (L > 0 /\ Packed) =>
        /\ Len(Rows) * L = Len(input_ids)
        /\ \A i \in DOMAIN Rows : \A j \in DOMAIN Rows[i] :
              /\ (i - 1) * L + j \in DOMAIN input_ids
              /\ IsInt(input_ids[(i - 1) * L + j], Rows[i][j])
        /\ input_ids = SubSeq(FlatT, 1, (N \div L) * L)

C3_Witness ==
    /\ pc = "save"
    /\ L = 2
    /\ Len(Rows) = 2
    /\ Rows[1] # Rows[2]
    /\ Rows[1][1] # Rows[1][2]

(* C4: the concatenation holds the tokens of the records in record order    *)
(* and, inside a record, in the record's order: token k of record r is at   *)
(* position Offset(r) + k of T, and so it is, when it is kept, in the       *)
(* truncated buffer and in the packed rows.                                 *)
C4_ConcatenationKeepsOrder ==
    pc # "concatenate" =>
        /\ pc \in {"total_length", "truncate"} => Len(input_ids) = N
        /\ \A r \in DOMAIN dataset : \A k \in DOMAIN dataset[r] :
              LET p == Offset(r) + k
              IN  /\ p <= Len(input_ids) => input_ids[p] = dataset[r][k]
                  /\ (L > 0 /\ Packed /\ p <= Len(Rows) * L) =>
                        IsInt(dataset[r][k], Rows[((p - 1) \div L) + 1][((p - 1) % L) + 1])

C4_Witness ==
    /\ pc = "save"
    /\ Len(dataset) = 2
    /\ Len(dataset[1]) = 2
    /\ Len(dataset[2]) = 2
    /\ dataset[1] # dataset[2]
    /\ Len(Rows) = 1
    /\ L = 3

(* C5: for every input and positive L, truncation discards exactly the last *)
(* N mod L elements of T, fewer than L of them: the buffer that is reshaped  *)
(* is the prefix of T before position floor(N/L)*L, and the rows hold no     *)
(* more elements than that prefix.                                           *)
C5_OnlyTrailingRemainderDropped ==
    (L > 0 /\ pc \in {"reshape", "save", "done"}) =>
        /\ N - Len(input_ids) = N % L
        /\ N - Len(input_ids) < L
        /\ \A p \in 1..N :
              IF p <= (N \div L) * L
              THEN p \in DOMAIN input_ids /\ input_ids[p] = FlatT[p]
              ELSE p \notin DOMAIN input_ids
        /\ Packed => SumLens(Rows) = N - (N % L)

C5_Witness ==
    /\ pc = "reshape"
    /\ L = 3
    /\ N = 4
    /\ Len(input_ids) = 3
    /\ FlatT[1] # FlatT[N]

(* C6: for L <= 0 and a non-empty input the packing ends in an explicit     *)
(* error (ZeroDivisionError or ValueError) and produces no rows: it never   *)
(* reaches the save with an empty or malformed table.                       *)
C6_NonPositiveWidthEndsInError ==
    (L <= 0 /\ dataset # <<>>) =>
        /\ Rows = <<>>
        /\ packaged_pretrain_dataset = <<>>
        /\ ~Packed
        /\ Stopped => error \in {"ZeroDivisionError", "ValueError"}

C6_Witness ==
    /\ L = 0
    /\ N > 0
    /\ error = "ZeroDivisionError"
    /\ Stopped

(* C7, as claimed: when L is not positive the error is raised before any    *)
(* processing step (concatenation, total_length, truncation, reshape) has   *)
(* been performed.                                                          *)
C7_FailsBeforeAnyProcessing ==
    (L <= 0 /\ error # "none") => Performed = {}

(* C7, amended: when L is not positive the error is raised before any row   *)
(* is produced, but after processing has begun.  With an empty collection   *)
(* the concatenation itself raises.  Otherwise the concatenation has been   *)
(* performed; for L = 0 the computation of total_length raises              *)
(* ZeroDivisionError with the buffer untouched; for L < 0 total_length (at  *)
(* least N) is computed and the buffer sliced, which keeps all N tokens,    *)
(* before the reshape raises ValueError.                                    *)
C7_FailsBeforeAnyRow ==
    (L <= 0 /\ error # "none") =>
        /\ Rows = <<>>
        /\ dataset = <<>> => (Performed = {} /\ error = "ValueError")
        /\ (dataset # <<>> /\ L = 0) =>
              /\ error = "ZeroDivisionError"
              /\ Performed = {"concatenate"}
              /\ input_ids = FlatT
        /\ (dataset # <<>> /\ L < 0) =>
              /\ error = "ValueError"
              /\ Performed = {"concatenate", "total_length", "truncate"}
              /\ total_length >= N
              /\ total_length < N - L
              /\ input_ids = FlatT

C7_Witness ==
    /\ L < 0
    /\ error = "ValueError"
    /\ pc = "reshape"
    /\ total_length > N
    /\ N > 1

(* C8, as claimed: if the input collection is empty, or every sequence in   *)
(* it is empty, then for every positive L packing completes without error,  *)
(* total_length is 0 and the output is an empty collection of rows.         *)
C8_EmptyInputCompletes ==
    (L > 0 /\ \A r \in DOMAIN dataset : dataset[r] = <<>>) =>
        /\ error = "none"
        /\ total_length = 0
        /\ Rows = <<>>
        /\ Stopped => pc = "done"

(* C9: for every non-empty input with fewer than L tokens in all (such as   *)
(* [[1,2]] with L = 5) no error is raised and the output is an empty        *)
(* collection of rows.                                                      *)
C9_FewerThanLTokensGivesNoRows ==
    (dataset # <<>> /\ L > 0 /\ N < L) =>
        /\ error = "none"
        /\ Rows = <<>>
        /\ packaged_pretrain_dataset = <<>>
        /\ Stopped => pc = "done"

C9_Witness ==
    /\ dataset = << <<Tok(0, 1), Tok(0, 2)>> >>
    /\ L = 5
    /\ pc = "done"
    /\ Rows = <<>>

(* C10: for every input with exactly L tokens in all the output is exactly  *)
(* one row, and it holds all the input tokens in their concatenation order. *)
C10_ExactlyLTokensGivesOneRow ==
    (L > 0 /\ N = L) =>
        /\ error = "none"
        /\ Stopped => pc = "done"
        /\ Packed =>
              /\ Len(Rows) = 1
              /\ Len(Rows[1]) = N
              /\ \A p \in 1..N : IsInt(FlatT[p], Rows[1][p])

C10_Witness ==
    /\ pc = "done"
    /\ N = L
    /\ L = 3
    /\ Len(dataset) = 2
    /\ Len(Rows) = 1

(* C11: packing [[1,2,3],[4,5],[6,7,8,9,10]] with L = 4: the concatenation  *)
(* has 10 tokens, is truncated to 8, the rows are exactly [1,2,3,4] and     *)
(* [5,6,7,8], and tokens 9 and 10 are in no row.                            *)
C11_ScenarioRows ==
    (dataset = ScenarioInput /\ L = 4) =>
        /\ error = "none"
        /\ Stopped => pc = "done"
        /\ pc \in {"total_length", "truncate"} =>
              input_ids = Ids(<<1, 2, 3, 4, 5, 6, 7, 8, 9, 10>>)
        /\ pc \in {"truncate", "reshape", "save", "done"} => total_length = 8
        /\ pc \in {"reshape", "save", "done"} =>
              input_ids = Ids(<<1, 2, 3, 4, 5, 6, 7, 8>>)
        /\ Packed =>
              /\ Rows = << <<1, 2, 3, 4>>, <<5, 6, 7, 8>> >>
              /\ \A i \in DOMAIN Rows : \A j \in DOMAIN Rows[i] : Rows[i][j] \notin {9, 10}
        /\ pc = "done" =>
              packaged_pretrain_dataset =
                  << [input_ids |-> <<1, 2, 3, 4>>], [input_ids |-> <<5, 6, 7, 8>>] >>

C11_Witness ==
    /\ dataset = ScenarioInput
    /\ L = 4
    /\ pc = "done"
    /\ Rows = << <<1, 2, 3, 4>>, <<5, 6, 7, 8>> >>

\* the rows that packing the input itself with width w gives
ExpectedRows(w) == [i \in 1..(N \div w) |-> [j \in 1..w |-> FlatT[(i - 1) * w + j].lo]]

(* C12: the packer is deterministic: a run of the cells on the same input   *)
(* collection with the same L as the run before ends as that run ended,     *)
(* with the same rows and the same saved records.                           *)
C12_RerunGivesSameOutput ==
    (run > 1 /\ dataset = prev.dataset /\ L = prev.L /\ Stopped) =>
        /\ pc = prev.pc
        /\ error = prev.error
        /\ Rows = prev.rows
        /\ packaged_pretrain_dataset = prev.packaged

C12_Witness ==
    /\ run = 2
    /\ dataset = prev.dataset
    /\ L = prev.L
    /\ L = 2
    /\ pc = "done"
    /\ Len(Rows) = 2
    /\ Rows = prev.rows

(* C13, as claimed: after the packer has run, the concatenated token        *)
(* sequence it was given is unchanged.                                      *)
C13_BufferUnchanged ==
    (pc \in {"reshape", "save", "done"} /\ L > 0) => input_ids = FlatT

(* C13, amended: the packer leaves the input Token Sequences and L as they  *)
(* are, but rebinds input_ids to its truncated prefix: after the truncation *)
(* the buffer holds the first floor(N/L)*L tokens of T and the last N mod L *)
(* are gone from it.  A later packing that starts at the concatenation cell *)
(* builds the buffer anew from the Token Sequences, so with the same data   *)
(* and any width L' it gives the rows of the original data for L'.          *)
C13_OnlyBufferRebound ==
    /\ [](/\ (L > 0 /\ pc \in {"reshape", "save", "done"}) =>
                input_ids = SubSeq(FlatT, 1, N - (N % L))
          /\ (run > 1 /\ pc = "total_length") => input_ids = FlatT
          /\ (run > 1 /\ dataset = prev.dataset /\ L > 0 /\ Packed) =>
                Rows = ExpectedRows(L))
    /\ [][run' = run => (dataset' = dataset /\ L' = L)]_vars

C13_Witness ==
    /\ run = 2
    /\ dataset = prev.dataset
    /\ prev.L = 3
    /\ prev.pc = "done"
    /\ L = 2
    /\ pc = "done"
    /\ Len(Rows) = 2
    /\ Len(input_ids) = 4

(* C14: the tokens one invocation discards are not carried forward: a later *)
(* invocation starts from the concatenation of its own input alone, its     *)
(* rows are the chunks of that concatenation, and every element of its rows *)
(* is a token of its own input.                                             *)
C14_RemainderNotCarried ==
    run > 1 =>
        /\ pc = "total_length" => input_ids = FlatT
        /\ (L > 0 /\ Packed) =>
              /\ Rows = ExpectedRows(L)
              /\ \A i \in DOMAIN Rows : \A j \in DOMAIN Rows[i] :
                    \E r \in DOMAIN dataset : \E k \in DOMAIN dataset[r] :
                        IsInt(dataset[r][k], Rows[i][j])

C14_Witness ==
    /\ run = 2
    /\ prev.pc = "done"
    /\ prev.L = 2
    /\ Len(prev.rows) = 2
    /\ dataset # prev.dataset
    /\ L = 2
    /\ pc = "done"
    /\ Len(Rows) = 2

C16_RowsMixRecords ==
    (L > 0 /\ Packed) =>
        \A r \in 1..(Len(dataset) - 1) :
            LET b == Offset(r + 1)
                i == ((b - 1) \div L) + 1
                c == ((b - 1) % L) + 1
            IN  (b < Len(Rows) * L /\ b % L # 0) =>
                    /\ i \in DOMAIN Rows
                    /\ c + 1 \in DOMAIN Rows[i]
                    /\ IsInt(dataset[r][Len(dataset[r])], Rows[i][c])
                    /\ IsInt(dataset[r + 1][1], Rows[i][c + 1])
                    /\ Rows[i][c] # Rows[i][c + 1]

C16_Witness ==
    /\ dataset = ScenarioInput
    /\ L = 4
    /\ pc = "save"
    /\ IsInt(dataset[1][3], Rows[1][3])
    /\ IsInt(dataset[2][1], Rows[1][4])
    /\ IsInt(dataset[2][2], Rows[2][1])
    /\ IsInt(dataset[3][1], Rows[2][2])

----------------------------------------------------------------------------
(* Claims about the session *)

\* the session took the remote (Colab) path: L1 learns it from the import,
\* the other notebooks from run_remote
RanRemotely == IF notebook = "L1" THEN ~run_local ELSE run_remote

\* setup_environment was called and has returned or raised
SetupCalled == session_pc \in {"unmount", "end"} \/ session_error # "none"

\* setup_environment has just returned; the unmount cell has not run yet
SetupReturned == session_pc = "unmount" /\ session_error = "none"

\* the call took the local branch
LocalRun == ~TakesRemoteBranch(notebook, in_colab, run_remote)

\* C17: Google Drive is flushed and unmounted only if the session ran
\* remotely and setup_environment reported mount_success = True; never after
\* a failed mount or in a local run.  The notebooks whose last cell tests
\* run_remote alone unmount after a failed mount.
C17_UnmountOnlyAfterMount ==
    unmounted => (RanRemotely /\ mount_success)

\* C18: setup_environment returns mount_success = True if and only if it ran
\* in remote mode and /content/drive is a mount point after drive.mount; in a
\* local run it returns False, whether or not a drive is mounted.
C18_MountSuccessIffRemoteAndMounted ==
    SetupReturned =>
        /\ mount_success <=> (~LocalRun /\ drive_mounted)
        /\ LocalRun => ~mount_success

C18_Witness ==
    /\ SetupReturned
    /\ LocalRun
    /\ drive_mounted
    /\ ~mount_success

C20_ExactlyOneRunMode ==
    (notebook # "L1" /\ session_pc # "run_mode") =>
        \/ (run_remote /\ ~run_local /\ ~run_local_usingColab)
        \/ (~run_remote /\ run_local /\ ~run_local_usingColab)
        \/ (~run_remote /\ ~run_local /\ run_local_usingColab)

C20_Witness ==
    /\ notebook = "Lesson_3"
    /\ session_pc = "setup"
    /\ ~run_remote
    /\ ~run_local
    /\ run_local_usingColab

\* the three scenarios the notebook documents, as (run_remote, run_local,
\* run_local_usingColab)
DocumentedScenarios ==
    { [run_remote |-> TRUE,  run_local |-> FALSE, run_local_usingColab |-> FALSE],
      [run_remote |-> FALSE, run_local |-> TRUE,  run_local_usingColab |-> FALSE],
      [run_remote |-> FALSE, run_local |-> FALSE, run_local_usingColab |-> TRUE] }

\* the flags the run-mode statements leave for a setting of run_remote
FlagsAfterRunMode(rr) ==
    [run_remote |-> rr,
     run_local |-> RunModeFlags(rr).run_local,
     run_local_usingColab |-> RunModeFlags(rr).run_local_usingColab]

\* C21: each of the three documented scenarios is what the run-mode statements
\* leave for some setting of run_remote, the local Jupyter scenario
\* (False, True, False) included.  The statements set run_local = False in
\* both branches, so that scenario is never produced.
C21_EveryScenarioReachable ==
    (notebook # "L1" /\ session_pc # "run_mode") =>
        \A s \in DocumentedScenarios : \E rr \in BOOLEAN : FlagsAfterRunMode(rr) = s

----------------------------------------------------------------------------
(* Claims about the helper functions of the other notebooks *)

\* the largest element of a non-empty list
Maximum(nums) ==
    CHOOSE m \in {nums[i] : i \in DOMAIN nums} : \A i \in DOMAIN nums : nums[i] <= m

\* C22: find_max(numbers) returns the maximum value of every non-empty list
\* of numbers, lists of negative numbers and of zeros included.  The search
\* starts from max = 0, so a list of negative numbers gives 0.
C22_FindMaxReturnsMaximum ==
    (find_max_returned /\ Len(numbers) >= 1) =>
        find_max_result = Maximum(numbers)

\* the leaderboard's six evaluations and their few-shot counts
LeaderboardTasks ==
    <<"arc_challenge", "hellaswag", "mmlu", "truthfulqa_mc2", "winogrande", "gsm8k">>

LeaderboardShots == <<25, 10, 5, 0, 5, 5>>

\* C23: h6_open_llm_leaderboard(model_name) issues exactly six evaluation
\* commands, one after another, in the order arc_challenge, hellaswag, mmlu,
\* truthfulqa_mc2, winogrande, gsm8k with few-shot counts 25, 10, 5, 0, 5, 5
\* and the given model in each, whatever the earlier commands returned.
C23_SixCommandsInOrder ==
    /\ Len(eval_cmds) <= Len(LeaderboardTasks)
    /\ \A i \in 1..Len(eval_cmds) :
          /\ eval_cmds[i].tasks = LeaderboardTasks[i]
          /\ eval_cmds[i].num_fewshot = LeaderboardShots[i]
          /\ eval_cmds[i].pretrained = model_name
    /\ (model_name # "unset" /\ ~ENABLED NextEval) => Len(eval_cmds) = Len(LeaderboardTasks)

C23_Witness ==
    /\ Len(eval_cmds) = 6
    /\ exit_codes[1] = 1
    /\ exit_codes[4] = 1
    /\ eval_cmds[6].tasks = "gsm8k"

\* a date as a count that grows with the calendar
DayCount(d) == (d.year * 12 + d.month) * 31 + d.day

\* C24: the default model of get_completion is "gpt-3.5-turbo" when the date
\* on which the defining cell was executed is strictly later than 2024-06-12
\* and "gpt-3.5-turbo-0301" otherwise, on 2024-06-12 itself included; a call
\* that leaves model out uses that default.
C24_DefaultModelByDate ==
    /\ default_model # "unset" =>
          default_model = (IF DayCount(current_date) > DayCount(target_date)
                           THEN "gpt-3.5-turbo" ELSE "gpt-3.5-turbo-0301")
    /\ used_model # "unset" => used_model \in {"gpt-3.5-turbo", "gpt-3.5-turbo-0301"}
    /\ (used_model # "unset" /\ DayCount(today) <= DayCount(target_date)) =>
          used_model = "gpt-3.5-turbo-0301"

C24_Witness ==
    /\ current_date = target_date
    /\ default_model = "gpt-3.5-turbo-0301"
    /\ used_model = "gpt-3.5-turbo-0301"
    /\ DayCount(today) > DayCount(target_date)

\* the tokenization cell has run
Tokenized == pc # "tokenize"

\* C25: the special tokens are put in by tokenization, not by the packer:
\* every record's input_ids starts with the BOS id, ends with the EOS id and
\* has the text's token ids in order between them, so it has at least two
\* elements and num_tokens is its length; every element of a packed row is the
\* element of the tokenized records at the same position, none added.
C25_MarkersComeFromTokenization ==
    /\ Tokenized =>
          /\ Len(dataset) = Len(texts)
          /\ \A r \in DOMAIN dataset :
                /\ Len(dataset[r]) >= 2
                /\ dataset[r][1] = bos_token_id
                /\ dataset[r][Len(dataset[r])] = eos_token_id
                /\ SubSeq(dataset[r], 2, Len(dataset[r]) - 1)
                      = convert_tokens_to_ids(tokenize(texts[r]))
                /\ num_tokens[r] = Len(dataset[r])
    /\ Packed =>
          /\ total_tokens = N
          /\ Len(Rows) * L <= N
          /\ \A i \in DOMAIN Rows : \A j \in DOMAIN Rows[i] :
                IsInt(FlatT[(i - 1) * L + j], Rows[i][j])

C25_Witness ==
    /\ pc = "done"
    /\ L = 3
    /\ texts = << <<"sentence">>, <<>> >>
    /\ Rows = << <<1, 4, 5>>, <<2, 1, 2>> >>

\* setup_environment was called with use_gpu = True, reached its nvidia-smi
\* check, and the check failed
GpuCheckFailed ==
    /\ SetupCalled
    /\ session_error \notin {"ImportError", "TypeError", "AssertionError"}
    /\ setup_arg_use_gpu
    /\ ~gpu_ok

\* C26: when setup_environment is called with use_gpu = True and the
\* nvidia-smi check fails, the function does not raise and returns its normal
\* result, and the use_gpu flag the later cells read is False.  The function
\* sets only its own parameter, which it does not return, so the notebook's
\* use_gpu stays True.
C26_CpuForcedAfterGpuFailure ==
    (notebook # "L1" /\ GpuCheckFailed) =>
        /\ session_error = "none"
        /\ path_to_scripts # "unset"
        /\ ~setup_use_gpu
        /\ ~use_gpu
        /\ torch_checked => ~cuda_reported

====
